---- MODULE Spec2Model ----
(***************************************************************************)
(* A model of list.py: the command-line price lister.                      *)
(*                                                                         *)
(* Strings are sequences of one-character strings, so that lower-casing,   *)
(* substring search, stripping and column widths are computed.  A JSON     *)
(* object key that may be absent is an option: <<>> when the key is        *)
(* missing, <<v>> when it is present with value v.  Python's None is the   *)
(* option <<>> where the code calls .get(key) without a default.           *)
(***************************************************************************)
EXTENDS Integers, Sequences, FiniteSets, TLC

(***************************************************************************)
(* Bounds of the model.                                                    *)
(***************************************************************************)
MaxProviders == 2
MaxModels == 2
MaxSortedModels == 3
MaxPrice == 2
MaxArgs == 3
MainProviders == 1
MainModels == 1

(***************************************************************************)
(* Strings.                                                                *)
(***************************************************************************)
EmptyStr == <<>>

\* str.lower(), one character
LowerChar(c) ==
    CASE c = "A" -> "a"
      [] c = "B" -> "b"
      [] c = "L" -> "l"
      [] c = "M" -> "m"
      [] OTHER -> c

\* str.lower()
Lower(s) == [i \in 1..Len(s) |-> LowerChar(s[i])]

\* Python's `sub in text` for strings
Contains(text, sub) ==
    \E i \in 0..(Len(text) - Len(sub)) :
        SubSeq(text, i + 1, i + Len(sub)) = sub

IsSpace(c) == c = " "

RECURSIVE LStrip(_)
LStrip(s) ==
    IF s # <<>> /\ IsSpace(Head(s)) THEN LStrip(Tail(s)) ELSE s

RECURSIVE RStrip(_)
RStrip(s) ==
    IF s # <<>> /\ IsSpace(s[Len(s)])
    THEN RStrip(SubSeq(s, 1, Len(s) - 1))
    ELSE s

\* str.strip()
Strip(s) == RStrip(LStrip(s))

\* dict.get(key, default) on an optional key
Get(opt, default) == IF opt = <<>> THEN default ELSE opt[1]

Max2(a, b) == IF a >= b THEN a ELSE b

RECURSIVE SeqMax(_)
\* max() of a non-empty sequence of numbers
SeqMax(s) ==
    IF Len(s) = 1 THEN s[1] ELSE Max2(s[1], SeqMax(Tail(s)))

RECURSIVE SeqMin(_)
\* min() of a non-empty sequence of numbers
SeqMin(s) ==
    IF Len(s) = 1 THEN s[1]
    ELSE LET r == SeqMin(Tail(s)) IN IF s[1] <= r THEN s[1] ELSE r

RECURSIVE Digits(_)
\* the decimal digits of a natural number
Digits(n) ==
    IF n < 10 THEN <<ToString(n)>>
    ELSE Digits(n \div 10) \o <<ToString(n % 10)>>

\* f"${x:.2f}" for a whole number x
Dollars(n) == <<"$">> \o Digits(n) \o <<".", "0", "0">>

(***************************************************************************)
(* JSON values of a price field.  t is the JSON type: "null", "num" (the   *)
(* number v), "str" (a string; ok tells whether float() parses it, to v),  *)
(* "list" (a non-empty array).                                             *)
(***************************************************************************)
JNull == [t |-> "null", ok |-> FALSE, v |-> 0]
JNum(n) == [t |-> "num", ok |-> TRUE, v |-> n]
JNumStr(n) == [t |-> "str", ok |-> TRUE, v |-> n]
JBadStr == [t |-> "str", ok |-> FALSE, v |-> 0]
JList == [t |-> "list", ok |-> FALSE, v |-> 0]

\* Python truthiness of a price value
Truthy(x) ==
    CASE x.t = "null" -> FALSE
      [] x.t = "num" -> x.v # 0
      [] OTHER -> TRUE

\* float(x) raises TypeError or ValueError
FloatRaises(x) == x.t = "null" \/ x.t = "list" \/ (x.t = "str" /\ ~x.ok)

\* def matches_filter(text, filter_str)
matches_filter(text, filter_str) == Contains(Lower(text), Lower(filter_str))

\* def format_price(price_value); the argument is prices.get(key), an option
format_price(price_value) ==
    IF price_value = <<>> \/ price_value[1].t = "null" THEN EmptyStr
    ELSE IF FloatRaises(price_value[1]) THEN EmptyStr
    ELSE Dollars(price_value[1].v)

(***************************************************************************)
(* The rows of list_prices.                                                *)
(***************************************************************************)
\* the value of `prices` when prices_raw is absent, a list or anything else
EmptyPrices ==
    [t |-> "dict", input_mtok |-> <<>>, output_mtok |-> <<>>,
     cache_write_mtok |-> <<>>, cache_read_mtok |-> <<>>]

\* a JSON array given for `prices`
PricesAsList == [EmptyPrices EXCEPT !.t = "list"]

\* lines 103-111: prices = prices_raw if it is a dict, {} otherwise
PricesOf(model) ==
    LET prices_raw == Get(model.prices, EmptyPrices)
    IN  IF prices_raw.t = "dict" THEN prices_raw ELSE EmptyPrices

\* line 125: the condition under which float(raw) is evaluated
Converted(raw) == Truthy(raw) /\ raw.t \in {"num", "str"}

\* line 125: float(raw) is evaluated and raises ValueError
ConvRaises(raw) == Converted(raw) /\ FloatRaises(raw)

\* line 125: float(raw) if raw and isinstance(raw, (int, float, str)) else 0.0
ConvValue(raw) == IF Converted(raw) THEN raw.v ELSE 0

\* lines 120-128, the variable input_val after the try block
InputVal(prices) ==
    LET input_raw == Get(prices.input_mtok, JNum(0))
    IN  IF ConvRaises(input_raw) THEN 0 ELSE ConvValue(input_raw)

\* lines 120-128, the variable output_val after the try block: the single
\* try block leaves it at 0.0 when the conversion of input_raw raised
OutputVal(prices) ==
    LET input_raw == Get(prices.input_mtok, JNum(0))
        output_raw == Get(prices.output_mtok, JNum(0))
    IN  IF ConvRaises(input_raw) \/ ConvRaises(output_raw) THEN 0
        ELSE ConvValue(output_raw)

\* line 129
PriceSumOf(prices) == InputVal(prices) + OutputVal(prices)

\* lines 90-91, 103-141: the row of one model; Provider is the optional key
\* that only the sorted output adds
MakeRow(model) ==
    LET model_id == Get(model.id, EmptyStr)
        model_name == Get(model.name, EmptyStr)
        prices == PricesOf(model)
    IN  [Name |-> IF model_name # EmptyStr THEN model_name ELSE model_id,
         Input |-> format_price(prices.input_mtok),
         Write |-> format_price(prices.cache_write_mtok),
         Read |-> format_price(prices.cache_read_mtok),
         Out |-> format_price(prices.output_mtok),
         Model |-> model_id,
         PriceSum |-> PriceSumOf(prices),
         Provider |-> <<>>]

(***************************************************************************)
(* print_table.  A printed line is a record: its kind, its cells and the   *)
(* widths the cells are padded to.                                         *)
(***************************************************************************)
Line(kind, cells, widths) == [kind |-> kind, cells |-> cells, widths |-> widths]

ColProvider == <<"P", "r", "o", "v", "i", "d", "e", "r">>
ColName == <<"N", "a", "m", "e">>
ColInput == <<"I", "n", "p", "u", "t">>
ColWrite == <<"W", "r", "i", "t", "e">>
ColRead == <<"R", "e", "a", "d">>
ColOut == <<"O", "u", "t">>
ColModel == <<"M", "o", "d", "e", "l">>

\* line 194
Columns(has_provider) ==
    IF has_provider
    THEN <<ColProvider, ColName, ColInput, ColWrite, ColRead, ColOut, ColModel>>
    ELSE <<ColName, ColInput, ColWrite, ColRead, ColOut, ColModel>>

\* str(row.get(col, ""))
Cell(row, col) ==
    CASE col = ColProvider -> Get(row.Provider, EmptyStr)
      [] col = ColName -> row.Name
      [] col = ColInput -> row.Input
      [] col = ColWrite -> row.Write
      [] col = ColRead -> row.Read
      [] col = ColOut -> row.Out
      [] OTHER -> row.Model

\* lines 197-202
ColWidth(rows, col) ==
    Max2(Len(col), SeqMax([i \in 1..Len(rows) |-> Len(Cell(rows[i], col))]))

\* def print_table(rows): the lines it prints
print_table(rows) ==
    IF rows = <<>> THEN <<>>
    ELSE LET has_provider == \E i \in 1..Len(rows) : rows[i].Provider # <<>>
             columns == Columns(has_provider)
             widths == [c \in 1..Len(columns) |-> ColWidth(rows, columns[c])]
         IN  <<Line("header", columns, widths), Line("separator", <<>>, widths)>>
             \o [i \in 1..Len(rows) |->
                   Line("row", [c \in 1..Len(columns) |-> Cell(rows[i], columns[c])],
                        widths)]

(***************************************************************************)
(* list_prices.  Its local variables are the record                        *)
(*   [matched_any, current_provider, table_rows, all_rows, printed, enc]   *)
(* where printed is the sequence of lines printed so far and enc is a      *)
(* history of the code's all_rows.append calls: the <<provider index,      *)
(* model index>> of each appended row, in the order of the appends.        *)
(***************************************************************************)
\* lines 152-154
Banner(provider_name, provider_id) ==
    <<Line("rule", <<>>, <<>>),
      Line("provider", <<provider_name, provider_id>>, <<>>),
      Line("rule", <<>>, <<>>)>>

\* lines 171-173
SortedBanner ==
    <<Line("rule", <<>>, <<>>), Line("sorted", <<>>, <<>>), Line("rule", <<>>, <<>>)>>

\* lines 60-63
InitLocals ==
    [matched_any |-> FALSE, current_provider |-> <<>>, table_rows |-> <<>>,
     all_rows |-> <<>>, printed |-> <<>>, enc |-> <<>>]

\* lines 56-58 with a comparison that does not lower-case the filter
NormalizeExactCase(filter_str) ==
    IF filter_str = <<"a", "l", "l">> THEN EmptyStr ELSE filter_str

\* lines 56-58
Normalize(filter_str) ==
    IF Lower(filter_str) = <<"a", "l", "l">> THEN EmptyStr ELSE filter_str

\* lines 70-74 without the test of the provider's name
ProviderMatchesIdOnly(provider, filter_str) ==
    \/ filter_str = EmptyStr
    \/ matches_filter(Get(provider.id, EmptyStr), filter_str)

\* lines 70-74
ProviderMatches(provider, filter_str) ==
    \/ filter_str = EmptyStr
    \/ matches_filter(Get(provider.id, EmptyStr), filter_str)
    \/ matches_filter(Get(provider.name, EmptyStr), filter_str)

\* lines 95-98 without the test of the model's name
ModelMatchesIdOnly(model, filter_str) ==
    matches_filter(Get(model.id, EmptyStr), filter_str)

\* lines 95-98 (and the generator of lines 80-81)
ModelMatches(model, filter_str) ==
    \/ matches_filter(Get(model.id, EmptyStr), filter_str)
    \/ matches_filter(Get(model.name, EmptyStr), filter_str)

\* lines 144-155: the grouped output of one row
GroupRow(L, provider, row) ==
    LET provider_name == Get(provider.name, EmptyStr)
        provider_id == Get(provider.id, EmptyStr)
        changed == L.current_provider # <<provider_name>>
        flushed == IF changed /\ L.table_rows # <<>>
                   THEN print_table(L.table_rows) ELSE <<>>
    IN  IF changed
        THEN [L EXCEPT !.printed = @ \o flushed \o Banner(provider_name, provider_id),
                       !.current_provider = <<provider_name>>,
                       !.table_rows = <<row>>]
        ELSE [L EXCEPT !.table_rows = Append(@, row)]

\* lines 89-155: one iteration of the loop over the models of a provider
ModelStep(L, provider, pi, mi, provider_matches, filter_str, sort_by_price) ==
    LET model == Get(provider.models, <<>>)[mi]
        skip == ~provider_matches /\ filter_str # EmptyStr
                /\ ~ModelMatches(model, filter_str)
        row == MakeRow(model)
        L1 == [L EXCEPT !.matched_any = TRUE,
                        !.all_rows = Append(@, row),
                        !.enc = Append(@, <<pi, mi>>)]
    IN  IF skip THEN L
        ELSE IF sort_by_price THEN L1
        ELSE GroupRow(L1, provider, row)

RECURSIVE ModelLoop(_, _, _, _, _, _, _)
\* lines 89-155: the loop over the models of a provider, from model mi on
ModelLoop(L, provider, pi, mi, provider_matches, filter_str, sort_by_price) ==
    IF mi > Len(Get(provider.models, <<>>)) THEN L
    ELSE ModelLoop(ModelStep(L, provider, pi, mi, provider_matches, filter_str,
                             sort_by_price),
                   provider, pi, mi + 1, provider_matches, filter_str, sort_by_price)

\* lines 65-155: one iteration of the loop over the providers
ProviderStep(L, data, pi, filter_str, sort_by_price) ==
    LET provider == data[pi]
        provider_matches == ProviderMatches(provider, filter_str)
        models == Get(provider.models, <<>>)
        has_matching_models ==
            \E i \in 1..Len(models) : ModelMatches(models[i], filter_str)
    IN  IF ~provider_matches /\ ~has_matching_models THEN L
        ELSE ModelLoop(L, provider, pi, 1, provider_matches, filter_str,
                       sort_by_price)

RECURSIVE InsertBeforeEqual(_, _)
\* an insertion that puts a row before the rows of equal PriceSum
InsertBeforeEqual(sorted, row) ==
    IF sorted = <<>> THEN <<row>>
    ELSE IF sorted[Len(sorted)].PriceSum < row.PriceSum THEN Append(sorted, row)
    ELSE Append(InsertBeforeEqual(SubSeq(sorted, 1, Len(sorted) - 1), row),
                sorted[Len(sorted)])

RECURSIVE InsertByPriceSum(_, _)
\* the place of a row in an ascending sequence: after every row whose
\* PriceSum is not larger
InsertByPriceSum(sorted, row) ==
    IF sorted = <<>> THEN <<row>>
    ELSE IF sorted[Len(sorted)].PriceSum <= row.PriceSum THEN Append(sorted, row)
    ELSE Append(InsertByPriceSum(SubSeq(sorted, 1, Len(sorted) - 1), row),
                sorted[Len(sorted)])

RECURSIVE SortByPriceSum(_)
\* line 159: all_rows.sort(key=lambda x: x["PriceSum"]), Python's stable sort
SortByPriceSum(rows) ==
    IF rows = <<>> THEN <<>>
    ELSE InsertByPriceSum(SortByPriceSum(SubSeq(rows, 1, Len(rows) - 1)),
                          rows[Len(rows)])

\* lines 165-168: a provider has a model whose id equals the row's model id
\* (model.get("id") is None, never equal to a string, when the id is absent)
HasModelId(provider, model_id) ==
    LET models == Get(provider.models, <<>>)
    IN  \E i \in 1..Len(models) : models[i].id = <<model_id>>

RECURSIVE Annotate(_, _, _)
\* lines 164-168: the loop over the providers, from provider pi on; the
\* break leaves the loop over the models only, so a later provider with
\* the same model id assigns row["Provider"] again
Annotate(row, data, pi) ==
    IF pi > Len(data) THEN row
    ELSE IF HasModelId(data[pi], row.Model)
    THEN Annotate([row EXCEPT !.Provider = <<Get(data[pi].name, EmptyStr)>>],
                  data, pi + 1)
    ELSE Annotate(row, data, pi + 1)

\* lines 157-174: the sorted output
SortedOutput(L, data) ==
    LET sorted == SortByPriceSum(L.all_rows)
        rows == [i \in 1..Len(sorted) |-> Annotate(sorted[i], data, 1)]
    IN  [L EXCEPT !.all_rows = rows,
                  !.printed = @ \o SortedBanner \o print_table(rows)]

\* lines 175-178: the last table of the grouped output
GroupedOutput(L) == [L EXCEPT !.printed = @ \o print_table(L.table_rows)]

\* lines 180-184 without the test of the filter
ExitCodeAnyFilter(L, filter_str) == IF ~L.matched_any THEN 1 ELSE 0

\* lines 180-184: the return value
ExitCode(L, filter_str) == IF filter_str # EmptyStr /\ ~L.matched_any THEN 1 ELSE 0

\* line 181
NoMatchLines(L, filter_str) ==
    IF ExitCode(L, filter_str) = 1
    THEN <<Line("nomatch", <<filter_str>>, <<>>)>> ELSE <<>>

RECURSIVE ProviderLoop(_, _, _, _, _)
\* lines 65-155: the loop over the providers, from provider pi on
ProviderLoop(L, data, pi, filter_str, sort_by_price) ==
    IF pi > Len(data) THEN L
    ELSE ProviderLoop(ProviderStep(L, data, pi, filter_str, sort_by_price),
                      data, pi + 1, filter_str, sort_by_price)

\* def list_prices(filter_str, sort_by_price): its rows, lines and result
ListPricesRun(data, filter_arg, sort_by_price) ==
    LET filter_str == Normalize(filter_arg)
        L1 == ProviderLoop(InitLocals, data, 1, filter_str, sort_by_price)
        L2 == IF sort_by_price THEN SortedOutput(L1, data) ELSE GroupedOutput(L1)
    IN  [rows |-> L2.all_rows,
         printed |-> L2.printed \o NoMatchLines(L2, filter_str),
         rc |-> ExitCode(L2, filter_str)]

(***************************************************************************)
(* main.                                                                   *)
(***************************************************************************)
SortFlag == <<"-", "-", "s", "o", "r", "t">>

RECURSIVE ParseFilter(_, _)
\* lines 233-237: filter_str after the loop over the arguments
ParseFilter(args, filter_str) ==
    IF args = <<>> THEN filter_str
    ELSE ParseFilter(Tail(args), IF Head(args) = SortFlag THEN filter_str ELSE Head(args))

\* lines 233-235: sort_by_price after the loop over the arguments
ParseSort(args) == \E i \in 1..Len(args) : args[i] = SortFlag

\* lines 259-260: float(x) if x else 0.0 raises TypeError or ValueError
SummaryRaises(raw) == Truthy(raw) /\ FloatRaises(raw)

\* lines 259-260: float(x) if x else 0.0
SummaryValue(raw) == IF Truthy(raw) THEN raw.v ELSE 0

\* lines 253-264: what one model appends to the list `prices`
SummaryPrice(model) ==
    LET prices_raw == Get(model.prices, EmptyPrices)
        input_val == Get(prices_raw.input_mtok, JNum(0))
        output_val == Get(prices_raw.output_mtok, JNum(0))
    IN  IF prices_raw.t # "dict" THEN <<>>
        ELSE IF SummaryRaises(input_val) \/ SummaryRaises(output_val) THEN <<>>
        ELSE IF SummaryValue(input_val) > 0 \/ SummaryValue(output_val) > 0
        THEN <<SummaryValue(input_val) + SummaryValue(output_val)>>
        ELSE <<>>

RECURSIVE SummaryPrices(_)
\* lines 251-264: the list `prices` of a provider
SummaryPrices(models) ==
    IF models = <<>> THEN <<>>
    ELSE SummaryPrice(Head(models)) \o SummaryPrices(Tail(models))

\* lines 245-269: the tuple appended to `providers`
SummaryOf(provider) ==
    LET models == Get(provider.models, <<>>)
        prices == SummaryPrices(models)
    IN  [name |-> Get(provider.name, EmptyStr),
         id |-> Get(provider.id, EmptyStr),
         model_count |-> Len(models),
         min_price |-> IF prices # <<>> THEN SeqMin(prices) ELSE 0,
         max_price |-> IF prices # <<>> THEN SeqMax(prices) ELSE 0]

NotAvailable == <<"N", "/", "A">>

\* lines 288-289
PriceStr(price) == IF price > 0 THEN Dollars(price) ELSE NotAvailable

\* lines 272-273: max() of an empty sequence raises ValueError
SummaryCrashes(data) == data = <<>>

\* lines 272-292: the lines of the provider summary, for a non-empty dataset
SummaryLines(data) ==
    LET providers == [i \in 1..Len(data) |-> SummaryOf(data[i])]
        max_name_len == SeqMax([i \in 1..Len(providers) |-> Len(providers[i].name)])
        max_id_len == SeqMax([i \in 1..Len(providers) |-> Len(providers[i].id)])
        total_width == max_name_len + max_id_len + 50
        widths == <<max_name_len, max_id_len>>
    IN  <<Line("summary_rule", <<>>, <<total_width>>),
          Line("summary_title", <<>>, <<>>),
          Line("summary_rule", <<>>, <<total_width>>),
          Line("summary_header", <<>>, widths),
          Line("summary_separator", <<>>, widths)>>
        \o [i \in 1..Len(providers) |->
              Line("summary_row",
                   <<providers[i].name, providers[i].id, Digits(providers[i].model_count),
                     PriceStr(providers[i].min_price), PriceStr(providers[i].max_price)>>,
                   widths)]
        \o <<Line("summary_rule", <<>>, <<total_width>>)>>

(***************************************************************************)
(* The program as a state machine.                                         *)
(*   data    the array loaded from data.json                               *)
(*   argv    sys.argv[1:]                                                  *)
(*   stdin   the line that input() reads                                   *)
(*   pc      the position in the program                                   *)
(*   filter_str, sort_by_price   the variables of main, then the           *)
(*           parameters of list_prices                                     *)
(*   provider_index   the position of the loop of line 65                  *)
(*   locals  the local variables of list_prices                            *)
(*   stdout  the lines printed                                             *)
(*   rc      the exit code, NoCode until main returns                      *)
(*   exc     the uncaught exception, "" when there is none                 *)
(*   reads   history: the number of input() calls                          *)
(*   calls   history: the number of list_prices calls                      *)
(*   filter_arg   history: the filter_str argument of the list_prices call *)
(*   unsorted     history: all_rows as it was before line 159 sorted it    *)
(***************************************************************************)
VARIABLES data, argv, stdin, pc, filter_str, sort_by_price, provider_index,
          locals, stdout, rc, exc, reads, calls, filter_arg, unsorted

vars == <<data, argv, stdin, pc, filter_str, sort_by_price, provider_index,
          locals, stdout, rc, exc, reads, calls, filter_arg, unsorted>>

NoCode == -1

\* lines 228-229, and the inputs of a run
InitWith(Datasets, Arguments, InputLines) ==
    /\ data \in Datasets
    /\ \/ argv \in Arguments /\ argv # <<>> /\ stdin = EmptyStr
       \/ argv = <<>> /\ stdin \in InputLines
    /\ pc = "main"
    /\ filter_str = EmptyStr
    /\ sort_by_price = FALSE
    /\ provider_index = 0
    /\ locals = InitLocals
    /\ stdout = <<>>
    /\ rc = NoCode
    /\ exc = ""
    /\ reads = 0
    /\ calls = 0
    /\ filter_arg = EmptyStr
    /\ unsorted = <<>>

\* lines 231-237: Argument Mode
ParseArgs ==
    /\ pc = "main"
    /\ Len(argv) > 0
    /\ filter_str' = ParseFilter(argv, EmptyStr)
    /\ sort_by_price' = ParseSort(argv)
    /\ pc' = "list_prices"
    /\ UNCHANGED <<data, argv, stdin, provider_index, locals, stdout, rc, exc,
                   reads, calls, filter_arg, unsorted>>

\* lines 238-292: Interactive Mode, the provider summary
ShowProviders ==
    /\ pc = "main"
    /\ Len(argv) = 0
    /\ IF SummaryCrashes(data)
       THEN /\ exc' = "ValueError"
            /\ pc' = "crashed"
            /\ stdout' = stdout
       ELSE /\ stdout' = stdout \o SummaryLines(data)
            /\ pc' = "prompt"
            /\ exc' = exc
    /\ UNCHANGED <<data, argv, stdin, filter_str, sort_by_price, provider_index,
                   locals, rc, reads, calls, filter_arg, unsorted>>

\* lines 293-297: the prompt
ReadFilter ==
    /\ pc = "prompt"
    /\ reads' = reads + 1
    /\ filter_str' = Strip(stdin)
    /\ IF Strip(stdin) = EmptyStr
       THEN /\ stdout' = stdout \o <<Line("prompt", <<>>, <<>>),
                                     Line("no_filter", <<>>, <<>>)>>
            /\ rc' = 0
            /\ pc' = "done"
       ELSE /\ stdout' = Append(stdout, Line("prompt", <<>>, <<>>))
            /\ rc' = rc
            /\ pc' = "list_prices"
    /\ UNCHANGED <<data, argv, stdin, sort_by_price, provider_index, locals, exc,
                   calls, filter_arg, unsorted>>

\* lines 52-63: the call of list_prices, up to the loop
EnterListPrices ==
    /\ pc = "list_prices"
    /\ calls' = calls + 1
    /\ filter_str' = Normalize(filter_str)
    /\ locals' = InitLocals
    /\ provider_index' = 1
    /\ pc' = "loop"
    /\ filter_arg' = filter_str
    /\ UNCHANGED <<data, argv, stdin, sort_by_price, stdout, rc, exc, reads,
                   unsorted>>

\* the lines that list_prices printed in a step
Printed(before, after) == SubSeq(after.printed, Len(before.printed) + 1, Len(after.printed))

\* lines 65-155: one iteration of the loop over the providers
NextProvider ==
    /\ pc = "loop"
    /\ provider_index <= Len(data)
    /\ LET after == ProviderStep(locals, data, provider_index, filter_str, sort_by_price)
       IN  /\ locals' = after
           /\ stdout' = stdout \o Printed(locals, after)
    /\ provider_index' = provider_index + 1
    /\ UNCHANGED <<data, argv, stdin, pc, filter_str, sort_by_price, rc, exc,
                   reads, calls, filter_arg, unsorted>>

\* lines 157-174: after the loop, sorting requested
PrintSorted ==
    /\ pc = "loop"
    /\ provider_index > Len(data)
    /\ sort_by_price
    /\ LET after == SortedOutput(locals, data)
       IN  /\ locals' = after
           /\ stdout' = stdout \o Printed(locals, after)
    /\ unsorted' = locals.all_rows
    /\ pc' = "return"
    /\ UNCHANGED <<data, argv, stdin, filter_str, sort_by_price, provider_index,
                   rc, exc, reads, calls, filter_arg>>

\* lines 175-178: after the loop, no sorting
PrintLastTable ==
    /\ pc = "loop"
    /\ provider_index > Len(data)
    /\ ~sort_by_price
    /\ LET after == GroupedOutput(locals)
       IN  /\ locals' = after
           /\ stdout' = stdout \o Printed(locals, after)
    /\ pc' = "return"
    /\ UNCHANGED <<data, argv, stdin, filter_str, sort_by_price, provider_index,
                   rc, exc, reads, calls, filter_arg, unsorted>>

\* lines 180-184 and 299, 303: the result of list_prices is the exit code
Return ==
    /\ pc = "return"
    /\ locals' = [locals EXCEPT !.printed = @ \o NoMatchLines(locals, filter_str)]
    /\ stdout' = stdout \o NoMatchLines(locals, filter_str)
    /\ rc' = ExitCode(locals, filter_str)
    /\ pc' = "done"
    /\ UNCHANGED <<data, argv, stdin, filter_str, sort_by_price, provider_index,
                   exc, reads, calls, filter_arg, unsorted>>

Next ==
    \/ ParseArgs
    \/ ShowProviders
    \/ ReadFilter
    \/ EnterListPrices
    \/ NextProvider
    \/ PrintSorted
    \/ PrintLastTable
    \/ Return

(***************************************************************************)
(* The datasets of a run: at most max_providers providers with at most     *)
(* max_models models in all, the fields drawn from the pools of a          *)
(* specification.                                                          *)
(***************************************************************************)
RECURSIVE Shapes(_, _)
\* the numbers of models of k providers that have at most n models in all
Shapes(k, n) ==
    IF k = 0 THEN {<<>>}
    ELSE UNION {{<<c>> \o r : r \in Shapes(k - 1, n - c)} : c \in 0..n}

ProvidersWith(n, pool) ==
    {[id |-> i, name |-> nm, models |-> ms] :
        i \in pool.ids, nm \in pool.names,
        ms \in IF n = 0 THEN pool.no_models
               ELSE {<<m>> : m \in [1..n -> pool.models]}}

RECURSIVE DataWith(_, _)
DataWith(shape, pool) ==
    IF shape = <<>> THEN {<<>>}
    ELSE {<<p>> \o r : p \in ProvidersWith(Head(shape), pool),
                       r \in DataWith(Tail(shape), pool)}

Datasets(pool, max_providers, max_models) ==
    UNION {DataWith(shape, pool) :
             shape \in UNION {Shapes(k, max_models) : k \in 0..max_providers}}

Dict(input, output, cache_write) ==
    [EmptyPrices EXCEPT !.input_mtok = input, !.output_mtok = output,
                        !.cache_write_mtok = cache_write]

ModelsOf(ids, names, prices) ==
    {[id |-> i, name |-> n, prices |-> p] : i \in ids, n \in names, p \in prices}

WithSort(filters) == {<<f>> : f \in filters} \cup {<<f, SortFlag>> : f \in filters}

(***************************************************************************)
(* Spec: the filter.  Providers and models whose ids and names may be      *)
(* absent and differ in letter case from the filter; one price list.       *)
(***************************************************************************)
FilterPool ==
    [ids |-> {<<>>, <<<<"b">>>>},
     names |-> {<<>>, <<<<"A", "L">>>>},
     models |-> ModelsOf({<<<<"m">>>>}, {<<>>, <<<<"L", "a">>>>},
                         {<<Dict(<<JNum(1)>>, <<JNum(2)>>, <<>>)>>}),
     no_models |-> {<<<<>>>>}]

Filters ==
    {EmptyStr, <<"a", "l", "l">>, <<"A", "L", "L">>,
     <<"B">>, <<"a", "l">>, <<"l", "a">>, <<"M">>, <<"z">>}

Init ==
    InitWith(Datasets(FilterPool, MaxProviders, MaxModels), WithSort(Filters),
             {<<" ">>, <<" ", "B", " ">>, <<"A", "L", "L">>})

Spec == Init /\ [][Next]_vars

(***************************************************************************)
(* SpecSort: the sorted output.  Models that share one id under providers  *)
(* of different names, with price lists of equal and of different sums.    *)
(***************************************************************************)
SortPool ==
    [ids |-> {<<<<"b">>>>},
     names |-> {<<<<"A">>>>, <<<<"B">>>>},
     models |-> ModelsOf({<<<<"m">>>>}, {<<>>},
                         {<<Dict(<<JNum(1)>>, <<JNum(2)>>, <<>>)>>,
                          <<Dict(<<JNum(2)>>, <<JNum(1)>>, <<>>)>>,
                          <<Dict(<<JNum(1)>>, <<>>, <<>>)>>}),
     no_models |-> {<<<<>>>>}]

InitSort ==
    InitWith(Datasets(SortPool, MaxProviders, MaxSortedModels),
             {<<SortFlag>>, <<<<"a">>, SortFlag>>, <<<<"B">>>>},
             {<<"a">>})

SpecSort == InitSort /\ [][Next]_vars

(***************************************************************************)
(* SpecPrices: the price fields.  One provider with one model, whose       *)
(* prices are absent, a list, or a mapping of every combination of input,  *)
(* output and cache-write values.                                          *)
(***************************************************************************)
PriceValues ==
    {<<>>, <<JNull>>, <<JBadStr>>, <<JList>>}
    \cup {<<JNum(n)>> : n \in 0..MaxPrice}
    \cup {<<JNumStr(n)>> : n \in 0..MaxPrice}

PricePool ==
    {<<>>, <<PricesAsList>>}
    \cup {<<Dict(i, o, c)>> : i \in PriceValues, o \in PriceValues,
                              c \in {<<>>, <<JNum(1)>>}}

InitPrices ==
    InitWith({<<[id |-> <<<<"b">>>>, name |-> <<<<"A">>>>, models |-> <<<<m>>>>]>> :
                 m \in ModelsOf({<<<<"m">>>>}, {<<>>}, PricePool)},
             {<<EmptyStr>>, <<SortFlag>>},
             {<<"m">>})

SpecPrices == InitPrices /\ [][Next]_vars

(***************************************************************************)
(* SpecMain: the two modes of main.  Up to MaxArgs arguments, input lines  *)
(* with and without surrounding blanks, and datasets (the empty array      *)
(* among them) whose records omit id, name, models or prices.              *)
(***************************************************************************)
MainPool ==
    [ids |-> {<<>>, <<<<"b">>>>},
     names |-> {<<>>, <<<<"A">>>>},
     models |-> ModelsOf({<<>>, <<<<"m">>>>}, {<<>>},
                         {<<>>, <<PricesAsList>>,
                          <<Dict(<<JBadStr>>, <<JNum(1)>>, <<>>)>>}),
     no_models |-> {<<>>, <<<<>>>>}]

Arguments(words) == UNION {[1..k -> words] : k \in 1..MaxArgs}

InitMain ==
    InitWith(Datasets(MainPool, MainProviders, MainModels),
             Arguments({SortFlag, <<"b">>, <<"z">>}),
             {EmptyStr, <<" ", " ">>, <<" ", "b", " ">>, <<"z">>})

SpecMain == InitMain /\ [][Next]_vars

(***************************************************************************)
(* Vocabulary of the properties.                                           *)
(***************************************************************************)
\* list_prices was called and main returned its result
Finished == pc = "done" /\ calls = 1

\* f, lower-cased, is a substring of text, lower-cased
SubstringNoCase(f, text) ==
    \E i \in 0..(Len(text) - Len(f)) :
        \A j \in 1..Len(f) : LowerChar(text[i + j]) = LowerChar(f[j])

IsAllToken(f) ==
    Len(f) = 3 /\ LowerChar(f[1]) = "a" /\ LowerChar(f[2]) = "l" /\ LowerChar(f[3]) = "l"

ModelsAt(p) == IF data[p].models = <<>> THEN <<>> ELSE data[p].models[1]

IdOf(x) == IF x.id = <<>> THEN EmptyStr ELSE x.id[1]

NameOf(x) == IF x.name = <<>> THEN EmptyStr ELSE x.name[1]

MatchesByIdOrName(x, f) == SubstringNoCase(f, IdOf(x)) \/ SubstringNoCase(f, NameOf(x))

\* the number of rows that model m of provider p produced
RowsOf(p, m) ==
    Cardinality({k \in 1..Len(locals.enc) : locals.enc[k] = <<p, m>>})

LinesOfKind(lines, kind) == SelectSeq(lines, LAMBDA l : l.kind = kind)

\* the data rows that list_prices printed
PrintedRows == LinesOfKind(locals.printed, "row")

RECURSIVE CountModels(_)
CountModels(p) == IF p = 0 THEN 0 ELSE Len(ModelsAt(p)) + CountModels(p - 1)

TotalModels == CountModels(Len(data))

(***************************************************************************)
(* C1: when the filter is a case-insensitive substring of a provider's id  *)
(* or name, every model of that provider produces exactly one row, whether *)
(* or not the model matches; every row produced is printed once.           *)
(***************************************************************************)
C1_MatchingProviderListsEveryModel ==
    Finished =>
        /\ Len(PrintedRows) = Len(locals.enc)
        /\ \A p \in 1..Len(data) :
              MatchesByIdOrName(data[p], filter_arg) =>
                  \A m \in 1..Len(ModelsAt(p)) : RowsOf(p, m) = 1

\* a provider matched by its name only lists a model that does not match
C1_Witness ==
    /\ Finished
    /\ filter_arg # EmptyStr
    /\ ~IsAllToken(filter_arg)
    /\ \E p \in 1..Len(data) :
          /\ ~SubstringNoCase(filter_arg, IdOf(data[p]))
          /\ SubstringNoCase(filter_arg, NameOf(data[p]))
          /\ \E m \in 1..Len(ModelsAt(p)) :
                /\ ~MatchesByIdOrName(ModelsAt(p)[m], filter_arg)
                /\ RowsOf(p, m) = 1

(***************************************************************************)
(* C2: with a non-empty filter other than the token "all", a model whose   *)
(* provider matches neither by id nor by name produces a row if and only   *)
(* if the filter is a case-insensitive substring of the model's id or      *)
(* name; otherwise it produces none, also beside a matching model.         *)
(***************************************************************************)
C2_ModelOfOtherProviderListedIffItMatches ==
    (Finished /\ filter_arg # EmptyStr /\ ~IsAllToken(filter_arg)) =>
        \A p \in 1..Len(data) :
            ~MatchesByIdOrName(data[p], filter_arg) =>
                \A m \in 1..Len(ModelsAt(p)) :
                    RowsOf(p, m) =
                        IF MatchesByIdOrName(ModelsAt(p)[m], filter_arg) THEN 1 ELSE 0

\* a provider that does not match, with a model listed and a model left out
C2_Witness ==
    /\ Finished
    /\ filter_arg # EmptyStr
    /\ ~IsAllToken(filter_arg)
    /\ \E p \in 1..Len(data) :
          /\ ~MatchesByIdOrName(data[p], filter_arg)
          /\ \E m, n \in 1..Len(ModelsAt(p)) :
                /\ ~SubstringNoCase(filter_arg, IdOf(ModelsAt(p)[m]))
                /\ RowsOf(p, m) = 1
                /\ RowsOf(p, n) = 0

(***************************************************************************)
(* C3: called with "all" in any letter case, list_prices produces the rows,*)
(* the printed lines and the exit code that it produces for the empty      *)
(* filter, and lists every model: "all" is no substring to search for.     *)
(***************************************************************************)
C3_AllTokenIsTheEmptyFilter ==
    (Finished /\ IsAllToken(filter_arg)) =>
        LET empty == ListPricesRun(data, EmptyStr, sort_by_price)
        IN  /\ locals.all_rows = empty.rows
            /\ locals.printed = empty.printed
            /\ rc = empty.rc
            /\ Len(locals.enc) = TotalModels

\* "ALL" in upper case listed a model, none of whose names contains "all"
C3_Witness ==
    /\ Finished
    /\ filter_arg = <<"A", "L", "L">>
    /\ Len(PrintedRows) > 0
    /\ \A p \in 1..Len(data) :
          /\ ~MatchesByIdOrName(data[p], filter_arg)
          /\ \A m \in 1..Len(ModelsAt(p)) : ~MatchesByIdOrName(ModelsAt(p)[m], filter_arg)

(***************************************************************************)
(* C6: list_prices returns 1 exactly when the filter is non-empty after    *)
(* the "all" normalization and no row was produced, and 0 otherwise; when  *)
(* it returns 1 it prints a message with the filter text and no table      *)
(* header, separator or data row.                                          *)
(***************************************************************************)
C6_ExitCodeOneIffFilterWithoutRows ==
    Finished =>
        /\ rc \in {0, 1}
        /\ rc = 1 <=> (/\ filter_arg # EmptyStr
                       /\ ~IsAllToken(filter_arg)
                       /\ Len(locals.all_rows) = 0)
        /\ rc = 1 =>
              /\ LinesOfKind(locals.printed, "nomatch")
                     = <<Line("nomatch", <<filter_arg>>, <<>>)>>
              /\ LinesOfKind(locals.printed, "header") = <<>>
              /\ LinesOfKind(locals.printed, "separator") = <<>>
              /\ LinesOfKind(locals.printed, "row") = <<>>
        /\ rc = 0 => LinesOfKind(locals.printed, "nomatch") = <<>>

\* a filter that matches nothing in a dataset that has models, sorting on
C6_Witness ==
    /\ Finished
    /\ rc = 1
    /\ sort_by_price
    /\ TotalModels > 0

(***************************************************************************)
(* C4: with sorting, the printed rows are a permutation of the rows the    *)
(* filter selected, non-decreasing in price_sum, and rows of equal         *)
(* price_sum keep the order in which the provider-then-model traversal     *)
(* met them.                                                               *)
(***************************************************************************)
\* the row without the Provider key that the sorted output adds
Unannotated(row) == [row EXCEPT !.Provider = <<>>]

\* the history of the appends follows the provider-then-model traversal
InTraversalOrder(enc) ==
    \A k, l \in 1..Len(enc) :
        k < l => \/ enc[k][1] < enc[l][1]
                 \/ enc[k][1] = enc[l][1] /\ enc[k][2] < enc[l][2]

\* line i shows the row: its last six cells are Name, Input, Write, Read, Out, Model
ShowsRow(line, row) ==
    LET n == Len(line.cells)
    IN  /\ n >= 6
        /\ SubSeq(line.cells, n - 5, n)
               = <<row.Name, row.Input, row.Write, row.Read, row.Out, row.Model>>

C4_SortedOutputIsStableAscending ==
    (pc \in {"return", "done"} /\ sort_by_price) =>
        LET n == Len(unsorted)
            rows == locals.all_rows
        IN  /\ Len(rows) = n
            /\ Len(locals.enc) = n
            /\ InTraversalOrder(locals.enc)
            /\ \A k \in 1..n :
                  unsorted[k].Model = IdOf(ModelsAt(locals.enc[k][1])[locals.enc[k][2]])
            /\ Len(PrintedRows) = n
            /\ \A i \in 1..n : ShowsRow(PrintedRows[i], rows[i])
            /\ \A i, j \in 1..n : i < j => rows[i].PriceSum <= rows[j].PriceSum
            /\ \E perm \in [1..n -> 1..n] :
                  /\ \A i, j \in 1..n : i # j => perm[i] # perm[j]
                  /\ \A i \in 1..n : Unannotated(rows[i]) = unsorted[perm[i]]
                  /\ \A i, j \in 1..n :
                        (i < j /\ rows[i].PriceSum = rows[j].PriceSum)
                            => perm[i] < perm[j]

\* a cheaper row met after two different rows of one price_sum was moved
\* before them, and the two kept their order
C4_Witness ==
    /\ pc = "done"
    /\ sort_by_price
    /\ Len(unsorted) = 3
    /\ unsorted[1].PriceSum = unsorted[2].PriceSum
    /\ unsorted[1] # unsorted[2]
    /\ unsorted[3].PriceSum < unsorted[1].PriceSum
    /\ Unannotated(locals.all_rows[1]) = unsorted[3]
    /\ Unannotated(locals.all_rows[2]) = unsorted[1]
    /\ Unannotated(locals.all_rows[3]) = unsorted[2]

(***************************************************************************)
(* C5: with sorting, every row carries a Provider value, the name of the   *)
(* first provider in dataset order that has a model with the row's model   *)
(* id.                                                                     *)
(***************************************************************************)
HasModelWithId(p, model_id) ==
    \E m \in 1..Len(ModelsAt(p)) :
        ModelsAt(p)[m].id # <<>> /\ ModelsAt(p)[m].id[1] = model_id

C5_SortedRowsNameTheFirstProvider ==
    (pc \in {"return", "done"} /\ sort_by_price) =>
        \A i \in 1..Len(locals.all_rows) :
            LET row == locals.all_rows[i]
            IN  /\ row.Provider # <<>>
                /\ \E p \in 1..Len(data) :
                      /\ HasModelWithId(p, row.Model)
                      /\ \A q \in 1..(p - 1) : ~HasModelWithId(q, row.Model)
                      /\ row.Provider[1] = NameOf(data[p])

(***************************************************************************)
(* C7: a row's price_sum is in + out, where each of input_mtok and         *)
(* output_mtok contributes its numeric value when present and numeric and  *)
(* 0 otherwise, independently of the other field; the cache prices never   *)
(* contribute, a list of prices gives 0, and the sum is never negative.    *)
(***************************************************************************)
\* what one price field contributes: its value when it is a number or a
\* string that reads as a number, 0 otherwise
Contribution(field) ==
    IF field # <<>> /\ field[1].t \in {"num", "str"} /\ field[1].ok
    THEN field[1].v ELSE 0

ExpectedSum(model) ==
    IF model.prices = <<>> \/ model.prices[1].t # "dict" THEN 0
    ELSE Contribution(model.prices[1].input_mtok)
         + Contribution(model.prices[1].output_mtok)

C7_PriceSumIsInputPlusOutput ==
    pc = "loop" =>
        \A k \in 1..Len(locals.all_rows) :
            LET model == ModelsAt(locals.enc[k][1])[locals.enc[k][2]]
            IN  /\ locals.all_rows[k].PriceSum = ExpectedSum(model)
                /\ locals.all_rows[k].PriceSum >= 0

(***************************************************************************)
(* C8: without sorting, the output is one segment (a provider banner and   *)
(* one table) for each provider that produced a row, in dataset order,     *)
(* each with exactly that provider's rows in model order, and no row       *)
(* carries a Provider column; also when two providers share a name.        *)
(***************************************************************************)
RECURSIVE RowsOfProvider(_, _)
\* the rows, among the first k appended, that provider p produced
RowsOfProvider(p, k) ==
    IF k = 0 THEN <<>>
    ELSE RowsOfProvider(p, k - 1)
         \o (IF locals.enc[k][1] = p THEN <<locals.all_rows[k]>> ELSE <<>>)

\* the segment of provider p: nothing when it produced no row
Segment(p) ==
    LET rows == RowsOfProvider(p, Len(locals.enc))
    IN  IF rows = <<>> THEN <<>>
        ELSE <<Line("rule", <<>>, <<>>),
               Line("provider", <<NameOf(data[p]), IdOf(data[p])>>, <<>>),
               Line("rule", <<>>, <<>>)>>
             \o print_table(rows)

RECURSIVE Segments(_)
Segments(p) == IF p = 0 THEN <<>> ELSE Segments(p - 1) \o Segment(p)

C8_OneSegmentPerProviderWithRows ==
    (pc \in {"return", "done"} /\ ~sort_by_price /\ calls = 1) =>
        /\ locals.printed = Segments(Len(data)) \o LinesOfKind(locals.printed, "nomatch")
        /\ \A k \in 1..Len(locals.all_rows) : locals.all_rows[k].Provider = <<>>

(***************************************************************************)
(* C9: the two modes of main.  Without arguments: the summary is printed,  *)
(* one line is read; when it is empty after trimming the exit code is 0    *)
(* and list_prices is never called, otherwise list_prices is called once   *)
(* with the trimmed line and without sorting.  With arguments: no summary, *)
(* no prompt, sorting iff some argument is "--sort", the filter is the     *)
(* last argument that is not "--sort", empty if there is none.  The        *)
(* pipeline runs at most once.                                             *)
(***************************************************************************)
Terminated == pc \in {"done", "crashed"}

\* t is s without its leading and trailing blanks
IsTrimOf(t, s) ==
    \E i \in 1..(Len(s) + 1) : \E j \in 0..Len(s) :
        /\ t = SubSeq(s, i, j)
        /\ \A k \in 1..(i - 1) : s[k] = " "
        /\ \A k \in (j + 1)..Len(s) : s[k] = " "
        /\ t # <<>> => (t[1] # " " /\ t[Len(t)] # " ")

\* the last argument that is not "--sort", the empty string if there is none
IsLastFilterOf(f, args) ==
    \/ f = EmptyStr /\ \A i \in 1..Len(args) : args[i] = SortFlag
    \/ \E i \in 1..Len(args) :
          /\ args[i] # SortFlag
          /\ args[i] = f
          /\ \A j \in (i + 1)..Len(args) : args[j] = SortFlag

SummaryShown == Len(LinesOfKind(stdout, "summary_title")) = 1

C9_TwoModesOnePass ==
    /\ calls <= 1
    /\ reads <= 1
    /\ (Terminated /\ argv = <<>>) =>
          /\ SummaryShown
          /\ reads = 1
          /\ IF IsTrimOf(EmptyStr, stdin)
             THEN calls = 0 /\ rc = 0
             ELSE calls = 1 /\ IsTrimOf(filter_arg, stdin) /\ ~sort_by_price
    /\ argv # <<>> =>
          /\ ~SummaryShown
          /\ reads = 0
          /\ LinesOfKind(stdout, "prompt") = <<>>
          /\ Terminated =>
                /\ calls = 1
                /\ sort_by_price <=> (\E i \in 1..Len(argv) : argv[i] = SortFlag)
                /\ IsLastFilterOf(filter_arg, argv)

(***************************************************************************)
(* C10: for every loaded array of provider objects, the empty array        *)
(* included, with fields omitted, prices given as a list and price values  *)
(* absent or non-numeric, a run in either mode ends with exit code 0 or 1  *)
(* and never with an uncaught exception.                                   *)
(***************************************************************************)
C10_NoUncaughtException ==
    /\ exc = ""
    /\ pc # "crashed"
    /\ pc = "done" => rc \in {0, 1}

====
